---- MODULE Spec2Model ----
(***************************************************************************)
(* Model of pip's TUF TAP 4 map file (src/pip/_internal/map/map.py):       *)
(*   Map.__init__  validates a JSON map document and stores it,            *)
(*   Map.resolve   is a generator that walks the mappings for a project.   *)
(*                                                                         *)
(* JSON strings are sequences of one-character strings (the URL scheme     *)
(* prefix "https://" is one symbol), so that the regular expressions and   *)
(* fnmatch.fnmatchcase are computed, not assumed.  A JSON value that may   *)
(* have the wrong type carries a flag for the isinstance test the code     *)
(* makes on it (str, list, obj, bool, int).                                *)
(***************************************************************************)
EXTENDS Integers, Sequences, FiniteSets, TLC

VARIABLES doc, result, gen, seen

vars == <<doc, result, gen, seen>>

(* ------------------------------ bounds -------------------------------- *)
MaxRules == 3      \* mapping entries in a document
MaxUrls == 2       \* URLs of repository r1
MaxSeqs == 2       \* resolve sequences open at once (SpecConc)

(* ------------------------------ helpers ------------------------------- *)
SeqSet(s) == {s[k] : k \in 1..Len(s)}

Min(S) == CHOOSE x \in S : \A y \in S : x <= y

\* The first raise of a loop of checks: errs[k] is "" when step k raises nothing.
FirstErr(errs) ==
  LET bad == {k \in 1..Len(errs) : errs[k] # ""}
  IN IF bad = {} THEN "" ELSE errs[Min(bad)]

(* ------------------------- JSON values of a document ------------------ *)
Str(s) == [str |-> TRUE, s |-> s]
NonStr == [str |-> FALSE, s |-> <<>>]
Name(n) == [str |-> TRUE, s |-> n]
NonStrName == [str |-> FALSE, s |-> ""]
List(items) == [list |-> TRUE, items |-> items]
NotList == [list |-> FALSE, items |-> <<>>]
Absent == [present |-> FALSE, ok |-> FALSE, val |-> 0]
BoolVal(b) == [present |-> TRUE, ok |-> TRUE, val |-> IF b THEN 1 ELSE 0]
IntVal(n) == [present |-> TRUE, ok |-> TRUE, val |-> n]
WrongType == [present |-> TRUE, ok |-> FALSE, val |-> 0]

(* ------------------------------ Map.__init__ -------------------------- *)
\* re.match(r"(https://)(.+)", url): the scheme, then at least one character.
UrlValid(url) == url.str /\ Len(url.s) >= 2 /\ url.s[1] = "https://"

\* [\w/\*]: the characters a path may start with.
PathChars == {"a", "b", "A", "B", "_", "/", "*"}

\* re.match(r"[\w/\*]+", path) matches a prefix: one leading character suffices.
PathValid(path) == path.str /\ Len(path.s) >= 1 /\ path.s[1] \in PathChars

\* len(paths) < len(set(paths))
NotUnique(items) == Len(items) < Cardinality(SeqSet(items))

\* terminating = _mapping.get("terminating", True)
DefaultTerminating == TRUE

\* threshold = _mapping.get("threshold", len(_repositories))
DefaultThresholdLax(repositories) == 1

DefaultThreshold(repositories) == Len(repositories)

\* threshold < 1 or threshold > len(_repositories)
ThresholdOutOfRangeNoLower(threshold, repositories) == threshold > Len(repositories)

ThresholdOutOfRange(threshold, repositories) ==
  threshold < 1 \/ threshold > Len(repositories)

Declared(repositories) == {repositories[k].name : k \in 1..Len(repositories)}

\* The checks of one repository of the top-level object, lines 45-58.
RepositoryError(value) ==
  IF ~value.list THEN "RepositoryNotList"
  ELSE IF \E k \in 1..Len(value.items) : ~UrlValid(value.items[k])
       THEN "InvalidRepositoryURL"
       ELSE ""

\* The checks of one mapping entry, lines 78-142, in the order of the code.
MappingError(entry, repositories) ==
  IF ~entry.obj THEN "MappingEntryNotObject"
  ELSE IF ~entry.paths.list THEN "PathsNotList"
  ELSE IF \E k \in 1..Len(entry.paths.items) : ~PathValid(entry.paths.items[k])
       THEN "InvalidPath"
  ELSE IF NotUnique(entry.paths.items) THEN "DuplicatePaths"
  ELSE IF ~entry.repositories.list THEN "RepositoriesNotList"
  ELSE IF \E k \in 1..Len(entry.repositories.items) :
            \/ ~entry.repositories.items[k].str
            \/ entry.repositories.items[k].s \notin Declared(repositories)
       THEN "UnknownRepositoryReference"
  ELSE IF NotUnique(entry.repositories.items) THEN "DuplicateRepositoryReference"
  ELSE IF entry.terminating.present /\ ~entry.terminating.ok
       THEN "InvalidTerminatingFlag"
  ELSE IF entry.threshold.present /\ ~entry.threshold.ok THEN "InvalidThreshold"
  ELSE IF ThresholdOutOfRange(
            IF entry.threshold.present THEN entry.threshold.val
            ELSE DefaultThreshold(entry.repositories.items),
            entry.repositories.items)
       THEN "InvalidThreshold"
  ELSE ""

\* Mapping(paths, repositories, terminating, threshold), lines 16-24 and 145-148.
Mapping(entry) ==
  [paths |-> [k \in 1..Len(entry.paths.items) |-> entry.paths.items[k].s],
   repositories |->
     [k \in 1..Len(entry.repositories.items) |-> entry.repositories.items[k].s],
   terminating |->
     IF entry.terminating.present THEN entry.terminating.val = 1
     ELSE DefaultTerminating,
   threshold |->
     IF entry.threshold.present THEN entry.threshold.val
     ELSE DefaultThreshold(entry.repositories.items)]

NoMap == [repositories |-> <<>>, mappings |-> <<>>]

Failed(kind) == [state |-> "failed", err |-> kind, map |-> NoMap]

\* Map.__init__: the first failed check raises MapFileCouldNotBeLoaded; the errors
\* are named after the check that raises them.
Load(d) ==
  IF ~d.repositories.present \/ d.repositories.items = <<>>
  THEN Failed("MissingRepositories")
  ELSE
    LET repositories == d.repositories.items
        e1 == FirstErr([k \in 1..Len(repositories) |->
                          RepositoryError(repositories[k].value)])
    IN
    IF e1 # "" THEN Failed(e1)
    ELSE IF d.mapping.kind = "absent" \/ (d.mapping.kind = "list" /\ d.mapping.items = <<>>)
         THEN Failed("MissingMapping")
    ELSE IF d.mapping.kind # "list" THEN Failed("MappingNotList")
    ELSE
      LET e2 == FirstErr([k \in 1..Len(d.mapping.items) |->
                            MappingError(d.mapping.items[k], repositories)])
      IN
      IF e2 # "" THEN Failed(e2)
      ELSE [state |-> "loaded", err |-> "",
            map |-> [repositories |->
                       [k \in 1..Len(repositories) |->
                          [name |-> repositories[k].name,
                           urls |-> [j \in 1..Len(repositories[k].value.items) |->
                                       repositories[k].value.items[j].s]]],
                     mappings |->
                       [k \in 1..Len(d.mapping.items) |-> Mapping(d.mapping.items[k])]]]

(* ------------------------------ Map.resolve --------------------------- *)
RECURSIVE fnmatchcase(_, _)
\* fnmatch.fnmatchcase(name, pat) for patterns of literals, "*" and "?".
fnmatchcase(name, pat) ==
  IF pat = <<>> THEN name = <<>>
  ELSE IF Head(pat) = "*"
       THEN fnmatchcase(name, Tail(pat)) \/ (name # <<>> /\ fnmatchcase(Tail(name), pat))
  ELSE IF Head(pat) = "?"
       THEN name # <<>> /\ fnmatchcase(Tail(name), Tail(pat))
  ELSE name # <<>> /\ Head(name) = Head(pat) /\ fnmatchcase(Tail(name), Tail(pat))

MatchAlways(name, mapping) == TRUE

\* match = any path of the mapping matches, lines 158-165.
Match(name, mapping) ==
  \E k \in 1..Len(mapping.paths) : fnmatchcase(name, mapping.paths[k])

NotSupportedAboveTwo(mapping) == mapping.threshold > 2

\* if mapping.threshold > 1: raise NotImplementedError
NotSupported(mapping) == mapping.threshold > 1

WholeList(indices, u) == indices

\* yield [index]
Yielded(indices, u) == <<indices[u]>>

BreakNever(mapping) == FALSE

\* if mapping.terminating: break
Break(mapping) == mapping.terminating

SentinelSkippedAfterBreak(broke) == ~broke

\* yield [] follows the for loop, however the loop was left.
YieldsSentinel(broke) == TRUE

\* indices = self.__repositories[repository]
Indices(map, repository) ==
  LET k == CHOOSE k \in 1..Len(map.repositories) : map.repositories[k].name = repository
  IN map.repositories[k].urls

NoFrame ==
  [pc |-> "none", name |-> <<>>, m |-> 0, r |-> 0, u |-> 0, log |-> <<>>, y |-> <<>>]

\* resolve(project_name) builds the generator; none of its code has run.
NewFrame(name) == [NoFrame EXCEPT !.pc = "start", !.name = name]

Suspended(f) == f.pc \in {"start", "yield188", "yield197"}

\* After the for loop over the mappings, lines 196-197.
AfterLoop(f, broke) ==
  IF YieldsSentinel(broke)
  THEN [f EXCEPT !.pc = "yield197", !.y = <<[rule |-> 0, group |-> <<>>]>>]
  ELSE [f EXCEPT !.pc = "done"]

RECURSIVE Scan(_, _, _), Emit(_, _, _, _, _)
\* The body of the for loop from mapping m on, up to the next yield or raise;
\* f.log is what logger.debug(f"paths: ...") has recorded, one entry per mapping.
Scan(map, f, m) ==
  IF m > Len(map.mappings) THEN AfterLoop(f, FALSE)
  ELSE
    LET mapping == map.mappings[m]
        g == [f EXCEPT !.log = Append(@, m), !.m = m]
    IN IF ~Match(f.name, mapping) THEN Scan(map, g, m + 1)
       ELSE IF NotSupported(mapping) THEN [g EXCEPT !.pc = "raised"]
       ELSE Emit(map, g, m, 1, 1)

\* The two nested loops of lines 184-188 from repository r, index u on, and the
\* test of terminating that follows them.
Emit(map, f, m, r, u) ==
  LET mapping == map.mappings[m] IN
  IF r > Len(mapping.repositories)
  THEN IF Break(mapping) THEN AfterLoop(f, TRUE) ELSE Scan(map, f, m + 1)
  ELSE
    LET indices == Indices(map, mapping.repositories[r]) IN
    IF u > Len(indices) THEN Emit(map, f, m, r + 1, 1)
    ELSE [f EXCEPT !.pc = "yield188", !.m = m, !.r = r, !.u = u,
                   !.y = <<[rule |-> m, group |-> Yielded(indices, u)]>>]

\* next(generator): run the generator from where it is suspended; f.y is what the
\* call returns (nothing when the generator raises or returns).
Resume(map, f) ==
  LET g == [f EXCEPT !.y = <<>>] IN
  IF f.pc = "start" THEN Scan(map, g, 1)
  ELSE IF f.pc = "yield188" THEN Emit(map, g, f.m, f.r, f.u + 1)
  ELSE IF f.pc = "yield197" THEN [g EXCEPT !.pc = "done"]
  ELSE g

SharedFrame(g, i) == g[1]

\* Each call of resolve has a generator frame of its own.
Frame(g, i) == g[i]

\* What a caller holds: the name it asked for, the groups its pulls returned (each
\* with the mapping it came from, 0 for the final empty group) and their number.
NoCaller == [name |-> <<>>, out |-> <<>>, pulls |-> 0]

RECURSIVE Drain(_, _, _)
\* list(generator): pull until the generator ends; the groups and the final state.
Drain(map, f, out) ==
  IF Suspended(f)
  THEN LET g == Resume(map, f) IN Drain(map, g, out \o g.y)
  ELSE [pc |-> f.pc, out |-> out]

(* ------------------------------ inputs -------------------------------- *)
ProjectNames == {<<"a", "b">>, <<"A", "b">>, <<"b">>, <<"b", "A">>}

Url(tag, n) == Str(<<"https://", tag>> \o [k \in 1..n |-> "x"])

Repo(name, urls) == [name |-> name, value |-> List(urls)]

R1(n) == Repo("r1", [k \in 1..n |-> Url("a", k)])
R2 == Repo("r2", <<Url("b", 1)>>)

Repositories(items) == [present |-> TRUE, items |-> items]

Rules(items) == [kind |-> "list", items |-> items]

Entry(paths, repositories, terminating, threshold) ==
  [obj |-> TRUE, paths |-> paths, repositories |-> repositories,
   terminating |-> terminating, threshold |-> threshold]

SeqsUpTo(S, lo, hi) == UNION {[1..n -> S] : n \in lo..hi}

\* Documents of the resolver: valid repositories, r1 with no URL or MaxUrls URLs,
\* declared before and after r2; entries that differ in paths, repositories and
\* the two flags, written out or omitted.
ResolverRepositories ==
  { Repositories(<<R1(0), R2>>), Repositories(<<R1(MaxUrls), R2>>),
    Repositories(<<R2, R1(MaxUrls)>>) }

EmittingOn == <<(<<Name("r2"), Name("r1")>>), BoolVal(FALSE), IntVal(1)>>
DefaultsOne == <<(<<Name("r1")>>), Absent, Absent>>
DefaultsTwo == <<(<<Name("r2"), Name("r1")>>), Absent, Absent>>
SingleOn == <<(<<Name("r1")>>), BoolVal(FALSE), IntVal(1)>>

ResolverEntries ==
  {Entry(List(<<Str(<<"a", "*">>)>>), List(c[1]), c[2], c[3]) :
     c \in {EmittingOn, DefaultsOne, DefaultsTwo, SingleOn}}
  \cup
  {Entry(List(<<Str(<<"b", "?">>), Str(<<"a", "*", "b">>)>>), List(c[1]), c[2], c[3]) :
     c \in {EmittingOn, DefaultsTwo}}

ResolverDocs ==
  {[repositories |-> rs, mapping |-> Rules(es)] :
     rs \in ResolverRepositories, es \in SeqsUpTo(ResolverEntries, 0, MaxRules)}

\* Documents of the loader: one entry with up to two defects, several entries with
\* one defect each, and defects of the top-level keys.
BaseEntry ==
  Entry(List(<<Str(<<"a", "*">>)>>), List(<<Name("r1")>>), Absent, Absent)

DefectIds == 0..18

Defect(k, e) ==
  CASE k = 0 -> e
    [] k = 1 -> [e EXCEPT !.obj = FALSE]
    [] k = 2 -> [e EXCEPT !.paths = NotList]
    [] k = 3 -> [e EXCEPT !.paths = List(<<>>)]
    [] k = 4 -> [e EXCEPT !.paths = List(<<Str(<<"?", "a">>)>>)]
    [] k = 5 -> [e EXCEPT !.paths = List(<<Str(<<"b">>), NonStr>>)]
    [] k = 6 -> [e EXCEPT !.paths = List(<<Str(<<"a", "*">>), Str(<<"a", "*">>)>>)]
    [] k = 7 -> [e EXCEPT !.repositories = NotList]
    [] k = 8 -> [e EXCEPT !.repositories = List(<<>>)]
    [] k = 9 -> [e EXCEPT !.repositories = List(<<Name("r1"), Name("zz")>>)]
    [] k = 10 -> [e EXCEPT !.repositories = List(<<NonStrName>>)]
    [] k = 11 -> [e EXCEPT !.repositories = List(<<Name("r1"), Name("r1")>>)]
    [] k = 12 -> [e EXCEPT !.repositories = List(<<Name("r2"), Name("r1")>>)]
    [] k = 13 -> [e EXCEPT !.terminating = WrongType]
    [] k = 14 -> [e EXCEPT !.terminating = BoolVal(FALSE)]
    [] k = 15 -> [e EXCEPT !.threshold = WrongType]
    [] k = 16 -> [e EXCEPT !.threshold = IntVal(0)]
    [] k = 17 -> [e EXCEPT !.threshold = IntVal(1)]
    [] k = 18 -> [e EXCEPT !.threshold = IntVal(2)]

OneDefect == {Defect(k, BaseEntry) : k \in DefectIds}

TwoDefects == {Defect(j, Defect(k, BaseEntry)) : j, k \in DefectIds}

ValidRepositories == Repositories(<<R1(MaxUrls), R2>>)

LoaderRepositories ==
  { [present |-> FALSE, items |-> <<>>],
    Repositories(<<>>),
    Repositories(<<[name |-> "r1", value |-> NotList]>>),
    Repositories(<<Repo("r1", <<>>)>>),
    Repositories(<<Repo("r1", <<Str(<<"http://", "a">>)>>)>>),
    Repositories(<<Repo("r1", <<Url("a", 1), Str(<<"https://">>)>>)>>),
    Repositories(<<Repo("r1", <<NonStr>>)>>),
    Repositories(<<Repo("r1", <<Str(<<"http://", "a">>)>>), [name |-> "r2", value |-> NotList]>>),
    Repositories(<<R1(1), [name |-> "r2", value |-> NotList]>>),
    ValidRepositories }

LoaderMappings ==
  { [kind |-> "absent", items |-> <<>>], [kind |-> "other", items |-> <<>>],
    Rules(<<>>) } \cup {Rules(<<e>>) : e \in OneDefect}

LoaderDocs ==
  {[repositories |-> ValidRepositories, mapping |-> Rules(<<e>>)] : e \in TwoDefects}
  \cup {[repositories |-> ValidRepositories, mapping |-> Rules(es)] :
          es \in SeqsUpTo(OneDefect, 2, MaxRules)}
  \cup {[repositories |-> rs, mapping |-> mp] :
          rs \in LoaderRepositories, mp \in LoaderMappings}

\* Documents shared by several sequences: three entries (one that emits and goes
\* on, one that takes the defaults and terminates, one that asks for two
\* repositories), repeated in turn up to MaxRules, starting from each of them.
ConcEntries ==
  << Entry(List(<<Str(<<"a", "*">>)>>), List(<<Name("r1"), Name("r2")>>),
           BoolVal(FALSE), IntVal(1)),
     Entry(List(<<Str(<<"b", "?">>), Str(<<"a", "*", "b">>)>>), List(<<Name("r1")>>),
           Absent, Absent),
     Entry(List(<<Str(<<"*", "b">>)>>), List(<<Name("r2"), Name("r1")>>),
           BoolVal(FALSE), Absent) >>

ConcDocs ==
  {[repositories |-> Repositories(<<R2, R1(MaxUrls)>>),
    mapping |-> Rules([k \in 1..MaxRules |-> ConcEntries[((k + s) % Len(ConcEntries)) + 1]])] :
     s \in 1..Len(ConcEntries)}

(* ------------------------------ actions ------------------------------- *)
Unloaded == [state |-> "unloaded", err |-> "", map |-> NoMap]

Init ==
  /\ doc \in ResolverDocs
  /\ result = Unloaded
  /\ gen = [i \in 1..1 |-> NoFrame]
  /\ seen = [i \in 1..1 |-> NoCaller]

InitLoad ==
  /\ doc \in LoaderDocs
  /\ result = Unloaded
  /\ gen = [i \in 1..1 |-> NoFrame]
  /\ seen = [i \in 1..1 |-> NoCaller]

InitConc ==
  /\ doc \in ConcDocs
  /\ result = Unloaded
  /\ gen = [i \in 1..MaxSeqs |-> NoFrame]
  /\ seen = [i \in 1..MaxSeqs |-> NoCaller]

\* Map(path_to_map_file)
LoadMap ==
  /\ result.state = "unloaded"
  /\ result' = Load(doc)
  /\ UNCHANGED <<doc, gen, seen>>

\* map.resolve(project_name): a new generator; the one held before is abandoned.
Resolve(i, name) ==
  /\ result.state = "loaded"
  /\ gen' = [gen EXCEPT ![i] = NewFrame(name)]
  /\ seen' = [seen EXCEPT ![i] = [NoCaller EXCEPT !.name = name]]
  /\ UNCHANGED <<doc, result>>

\* next(generator) on a generator that has not ended.
Pull(i) ==
  /\ result.state = "loaded"
  /\ Suspended(Frame(gen, i))
  /\ LET g == Resume(result.map, Frame(gen, i)) IN
       /\ gen' = [gen EXCEPT ![i] = g]
       /\ seen' = [seen EXCEPT ![i].out = @ \o g.y, ![i].pulls = @ + 1]
  /\ UNCHANGED <<doc, result>>

Next ==
  \/ LoadMap
  \/ \E i \in DOMAIN gen, name \in ProjectNames : Resolve(i, name)
  \/ \E i \in DOMAIN gen : Pull(i)

Spec == Init /\ [][Next]_vars

SpecLoad == InitLoad /\ [][Next]_vars

SpecConc == InitConc /\ [][Next]_vars

(* ------------------------------ properties ---------------------------- *)
Callers == DOMAIN gen

Loaded == result.state = "loaded"

Mappings == result.map.mappings

Last(s) == s[Len(s)]

IsPrefix(s, t) == Len(s) <= Len(t) /\ \A k \in 1..Len(s) : s[k] = t[k]

\* Read off the stored map, not through the resolver's own tests.
Matching(m, name) ==
  \E k \in 1..Len(Mappings[m].paths) : fnmatchcase(name, Mappings[m].paths[k])

UrlsOf(repository) ==
  LET hits == {k \in 1..Len(result.map.repositories) :
                 result.map.repositories[k].name = repository}
  IN result.map.repositories[Min(hits)].urls

GroupsOf(out) == [k \in 1..Len(out) |-> out[k].group]

OfRule(out, m) == SelectSeq(out, LAMBDA e : e.rule = m)

Finished(i) == gen[i].pc \in {"yield197", "done"}

\* The sequence of caller i has left mapping m behind.
Completed(i, m) ==
  /\ m \in SeqSet(gen[i].log)
  /\ \/ gen[i].pc \in {"yield197", "done", "raised"} /\ ~(gen[i].pc = "raised" /\ gen[i].m = m)
     \/ Last(gen[i].log) > m

\* The sequence of caller i was ended by a terminating match of mapping m.
EndedByTerminating(i, m) ==
  /\ Finished(i)
  /\ gen[i].log # <<>> /\ Last(gen[i].log) = m
  /\ Matching(m, seen[i].name) /\ Mappings[m].terminating

RECURSIVE OneGroupPerUrl(_, _)
\* One single-URL group per URL, repository after repository in the given order.
OneGroupPerUrl(repositories, r) ==
  IF r > Len(repositories) THEN <<>>
  ELSE [u \in 1..Len(UrlsOf(repositories[r])) |-> <<UrlsOf(repositories[r])[u]>>]
       \o OneGroupPerUrl(repositories, r + 1)

\* C1 (as stated): a sequence that ended by a terminating match holds no empty
\* group.
C1_NoSentinelAfterTerminating ==
  \A i \in Callers : \A m \in 1..Len(Mappings) :
    EndedByTerminating(i, m) => \A k \in 1..Len(seen[i].out) : seen[i].out[k].group # <<>>

\* C1 (amended): every sequence that ends without NotSupported ends with exactly
\* one empty group, its last element, also after a terminating match, where the
\* empty group directly follows the groups of the terminating mapping; a sequence
\* that has not ended, or has failed, holds no empty group.
C1_SentinelEndsEverySequence ==
  \A i \in Callers :
    LET out == seen[i].out IN
    /\ Finished(i) =>
         /\ out # <<>> /\ Last(out).group = <<>>
         /\ \A k \in 1..(Len(out) - 1) : out[k].group # <<>>
         /\ \A m \in 1..Len(Mappings) :
              EndedByTerminating(i, m) =>
                GroupsOf(OfRule(out, m)) \o << <<>> >>
                  = SubSeq(GroupsOf(out), Len(out) - Len(OfRule(out, m)), Len(out))
    /\ ~Finished(i) => \A k \in 1..Len(out) : out[k].group # <<>>

C1_Witness ==
  \E i \in Callers : \E m \in 1..Len(Mappings) :
    /\ gen[i].pc = "done" /\ EndedByTerminating(i, m)
    /\ Len(OfRule(seen[i].out, m)) >= 2
    /\ Last(seen[i].out).group = <<>>

\* C2 (as stated): the groups of a matching mapping of threshold 1 are the URL
\* lists of its repositories, one group per repository.
C2_OneGroupPerRepository ==
  \A i \in Callers : \A m \in 1..Len(Mappings) :
    (Completed(i, m) /\ Matching(m, seen[i].name)) =>
      GroupsOf(OfRule(seen[i].out, m))
        = [r \in 1..Len(Mappings[m].repositories) |-> UrlsOf(Mappings[m].repositories[r])]

\* C2 (amended): the groups of a matching mapping of threshold 1 are one group
\* per URL, each holding that single URL, repository after repository in the
\* order of the mapping and in the order of each repository's URL list, whatever
\* the order of the top-level object; a repository of k URLs gives k groups.
C2_OneGroupPerUrl ==
  \A i \in Callers : \A m \in 1..Len(Mappings) :
    (m \in SeqSet(gen[i].log) /\ Matching(m, seen[i].name) /\ Mappings[m].threshold = 1) =>
      LET want == OneGroupPerUrl(Mappings[m].repositories, 1)
          got == GroupsOf(OfRule(seen[i].out, m))
      IN /\ IsPrefix(got, want)
         /\ Completed(i, m) => got = want

C2_Witness ==
  \E i \in Callers : \E m \in 1..Len(Mappings) :
    /\ gen[i].pc = "done" /\ Matching(m, seen[i].name)
    /\ Mappings[m].repositories = <<"r2", "r1">>
    /\ result.map.repositories[1].name = "r1"
    /\ Len(UrlsOf("r1")) = 2
    /\ Len(OfRule(seen[i].out, m)) = 3

\* C3: once a terminating mapping has matched and its groups are out, no later
\* mapping is evaluated and no group of a later mapping is delivered.
C3_TerminationLaw ==
  \A i \in Callers : \A k \in 1..Len(gen[i].log) :
    LET m == gen[i].log[k] IN
    /\ m = k
    /\ (Matching(m, seen[i].name) /\ Mappings[m].threshold = 1 /\ Mappings[m].terminating) =>
         /\ k = Len(gen[i].log)
         /\ \A j \in 1..Len(seen[i].out) : seen[i].out[j].rule <= m

C3_Witness ==
  \E i \in Callers :
    /\ gen[i].pc = "done" /\ Len(Mappings) >= 2
    /\ Matching(1, seen[i].name) /\ Mappings[1].terminating /\ Mappings[1].threshold = 1
    /\ Matching(2, seen[i].name)
    /\ Len(seen[i].out) >= 2

\* The mappings at which the walk for a name stops: a match that terminates or
\* that asks for more than one repository.
Stops(name) ==
  {m \in 1..Len(Mappings) :
     Matching(m, name) /\ (Mappings[m].terminating \/ Mappings[m].threshold > 1)}

\* The walk for a name reaches a matching mapping of threshold above 1.
Fails(name) == Stops(name) # {} /\ Mappings[Min(Stops(name))].threshold > 1

RECURSIVE GroupsBefore(_, _, _)
\* The groups of the matching mappings m..last-1.
GroupsBefore(name, m, last) ==
  IF m >= last THEN <<>>
  ELSE (IF Matching(m, name) THEN OneGroupPerUrl(Mappings[m].repositories, 1) ELSE <<>>)
       \o GroupsBefore(name, m + 1, last)

\* C4: resolve itself never fails; the sequence fails exactly at the first
\* matching mapping of threshold above 1 that the walk reaches, after all groups
\* of the earlier matching mappings and before any group of that mapping, of a
\* later one, or the empty group; no other mapping makes it fail.
C4_QuorumGapLaw ==
  \A i \in Callers :
    LET name == seen[i].name
        out == seen[i].out
    IN
    /\ gen[i].pc = "start" => seen[i].pulls = 0 /\ out = <<>>
    /\ gen[i].pc = "raised" =>
         /\ Fails(name) /\ gen[i].m = Min(Stops(name))
         /\ GroupsOf(out) = GroupsBefore(name, 1, gen[i].m)
         /\ seen[i].pulls = Len(out) + 1
    /\ (gen[i].pc # "none" /\ Fails(name)) =>
         /\ ~Finished(i)
         /\ IsPrefix(GroupsOf(out), GroupsBefore(name, 1, Min(Stops(name))))
    /\ Finished(i) => ~Fails(name)

C4_Witness ==
  \E i \in Callers :
    /\ gen[i].pc = "raised" /\ seen[i].out # <<>>
    /\ gen[i].m = 2 /\ Len(Mappings) = 3
    /\ Matching(3, seen[i].name)

NoMatch(name) == \A m \in 1..Len(Mappings) : ~Matching(m, name)

\* C5: when no path of any mapping matches the name, the sequence is the empty
\* group alone and ends without error, whatever the thresholds and flags.
C5_NoMatchLaw ==
  \A i \in Callers :
    (gen[i].pc # "none" /\ NoMatch(seen[i].name)) =>
      /\ gen[i].pc \in {"start", "yield197", "done"}
      /\ gen[i].pc = "start" => seen[i].out = <<>>
      /\ Finished(i) => GroupsOf(seen[i].out) = << <<>> >> /\ seen[i].pulls <= 2

C5_Witness ==
  \E i \in Callers :
    /\ gen[i].pc = "done" /\ NoMatch(seen[i].name)
    /\ seen[i].name = <<"A", "b">>
    /\ \E m \in 1..Len(Mappings) : Mappings[m].threshold > 1
    /\ \E m \in 1..Len(Mappings) : ~Mappings[m].terminating

Entries == doc.mapping.items

HasRepeat(items) == \E j, k \in 1..Len(items) : j # k /\ items[j] = items[k]

\* C6: a document with an entry that repeats a path, or a repository name, is
\* rejected, so no loaded mapping holds a repeated path or repository.
C6_DuplicatesRejected ==
  /\ (/\ result.state # "unloaded"
      /\ \E k \in 1..Len(Entries) :
           \/ HasRepeat(Entries[k].paths.items)
           \/ HasRepeat(Entries[k].repositories.items))
       => result.state = "failed"
  /\ Loaded => \A m \in 1..Len(Mappings) :
       ~HasRepeat(Mappings[m].paths) /\ ~HasRepeat(Mappings[m].repositories)

\* The numbered constraints 5..13 that one entry violates, each read on its own.
Violations(e) ==
  {n \in 5..13 :
     \/ n = 5 /\ ~e.obj
     \/ n = 6 /\ ~e.paths.list
     \/ n = 7 /\ \E k \in 1..Len(e.paths.items) : ~PathValid(e.paths.items[k])
     \/ n = 8 /\ HasRepeat(e.paths.items)
     \/ n = 9 /\ ~e.repositories.list
     \/ n = 10 /\ \E k \in 1..Len(e.repositories.items) :
                    \/ ~e.repositories.items[k].str
                    \/ \A j \in 1..Len(doc.repositories.items) :
                         doc.repositories.items[j].name # e.repositories.items[k].s
     \/ n = 11 /\ HasRepeat(e.repositories.items)
     \/ n = 12 /\ e.terminating.present /\ ~e.terminating.ok
     \/ n = 13 /\ \/ e.threshold.present /\ ~e.threshold.ok
                  \/ LET th == IF e.threshold.present THEN e.threshold.val
                               ELSE Len(e.repositories.items)
                     IN th < 1 \/ th > Len(e.repositories.items)}

KindOf(n) ==
  <<"", "", "", "", "MappingEntryNotObject", "PathsNotList", "InvalidPath",
    "DuplicatePaths", "RepositoriesNotList", "UnknownRepositoryReference",
    "DuplicateRepositoryReference", "InvalidTerminatingFlag", "InvalidThreshold">>[n]

\* The error the stated order gives: the top-level repositories first, then the
\* earliest entry that violates anything, and its lowest-numbered violation.
ExpectedError ==
  LET rs == doc.repositories.items
      badRepos == {k \in 1..Len(rs) :
                     \/ ~rs[k].value.list
                     \/ \E j \in 1..Len(rs[k].value.items) : ~UrlValid(rs[k].value.items[j])}
      badEntries == {k \in 1..Len(Entries) : Violations(Entries[k]) # {}}
  IN
  IF ~doc.repositories.present \/ rs = <<>> THEN "MissingRepositories"
  ELSE IF badRepos # {}
       THEN IF ~rs[Min(badRepos)].value.list THEN "RepositoryNotList"
            ELSE "InvalidRepositoryURL"
  ELSE IF doc.mapping.kind = "absent" \/ (doc.mapping.kind = "list" /\ Entries = <<>>)
       THEN "MissingMapping"
  ELSE IF doc.mapping.kind # "list" THEN "MappingNotList"
  ELSE IF badEntries # {} THEN KindOf(Min(Violations(Entries[Min(badEntries)])))
  ELSE ""

\* The document violates more than one constraint.
SeveralViolations ==
  LET badEntries == {k \in 1..Len(Entries) : Violations(Entries[k]) # {}} IN
  \/ \E k \in badEntries : Cardinality(Violations(Entries[k])) >= 2
  \/ Cardinality(badEntries) >= 2
  \/ /\ badEntries # {}
     /\ ExpectedError \in {"MissingRepositories", "RepositoryNotList", "InvalidRepositoryURL"}

\* C7: when a document violates several constraints, load fails with the error
\* of the first violated one, in the stated order, and returns no map.
C7_FirstViolationReported ==
  (result.state # "unloaded" /\ SeveralViolations) =>
    /\ result.state = "failed"
    /\ result.err = ExpectedError
    /\ result.map = NoMap

\* The same document with the omitted flags written out as the stated defaults.
Explicit(d) ==
  [d EXCEPT !.mapping.items =
     [k \in 1..Len(@) |->
        [@[k] EXCEPT
           !.terminating = IF @.present THEN @ ELSE BoolVal(TRUE),
           !.threshold = IF @.present THEN @
                         ELSE IntVal(Len(d.mapping.items[k].repositories.items))]]]

\* C8: an entry without terminating resolves as with terminating = true, one
\* without threshold as with threshold = its number of repositories: the document
\* loads alike and every name resolves to the same sequence with the same end; a
\* matching entry without threshold fails with NotSupported when it has two or
\* more repositories and emits its groups when it has one.
C8_DefaultValues ==
  result.state # "unloaded" =>
    LET ex == Load(Explicit(doc)) IN
    /\ ex.state = result.state
    /\ Loaded =>
         /\ \A name \in ProjectNames :
              Drain(result.map, NewFrame(name), <<>>) = Drain(ex.map, NewFrame(name), <<>>)
         /\ \A i \in Callers : \A k \in 1..Len(gen[i].log) :
              LET m == gen[i].log[k] IN
              (~Entries[m].threshold.present /\ Matching(m, seen[i].name)) =>
                /\ Len(Entries[m].repositories.items) >= 2 =>
                     gen[i].pc = "raised" /\ gen[i].m = m
                /\ Len(Entries[m].repositories.items) = 1 =>
                     /\ ~(gen[i].pc = "raised" /\ gen[i].m = m)
                     /\ Completed(i, m) =>
                          GroupsOf(OfRule(seen[i].out, m))
                            = OneGroupPerUrl(Mappings[m].repositories, 1)

C8_Witness ==
  \E i \in Callers :
    /\ Loaded /\ gen[i].pc = "done" /\ Len(Entries) >= 2
    /\ ~Entries[1].threshold.present /\ ~Entries[1].terminating.present
    /\ ~Entries[2].threshold.present /\ Len(Entries[2].repositories.items) = 2
    /\ Matching(1, seen[i].name) /\ Matching(2, seen[i].name)
    /\ Len(seen[i].out) = Len(UrlsOf("r1")) + 1 /\ Len(seen[i].out) >= 3

\* C9 (as stated): a loaded map has no empty URL list, no empty paths list and
\* no empty repositories list.
C9_NoEmptyLists ==
  Loaded =>
    /\ \A k \in 1..Len(result.map.repositories) : result.map.repositories[k].urls # <<>>
    /\ \A m \in 1..Len(Mappings) :
         Mappings[m].paths # <<>> /\ Mappings[m].repositories # <<>>

\* C9 (amended): a loaded map has at least one repository and one mapping, and
\* every mapping names at least one repository; a document with an entry whose
\* repositories list is empty is rejected.  (URL lists and paths lists may be
\* empty.)
C9_RepositoriesListsNonEmpty ==
  /\ Loaded =>
       /\ result.map.repositories # <<>> /\ Mappings # <<>>
       /\ \A m \in 1..Len(Mappings) :
            Mappings[m].repositories # <<>> /\ Mappings[m].threshold >= 1
  /\ (/\ result.state # "unloaded"
      /\ \E k \in 1..Len(Entries) :
           Entries[k].repositories.list /\ Entries[k].repositories.items = <<>>)
       => result.state = "failed"

C9_Witness ==
  /\ result.state = "failed" /\ result.err = "InvalidThreshold"
  /\ Len(Entries) = 2
  /\ Violations(Entries[1]) = {}
  /\ Entries[2].repositories = List(<<>>) /\ ~Entries[2].threshold.present

\* What the sequence for a name is when it is consumed alone, from the start.
Alone(name) == Drain(result.map, NewFrame(name), <<>>)

Delivered(i) ==
  gen[i].pc # "none" =>
    LET a == Alone(seen[i].name) IN
    /\ IsPrefix(seen[i].out, a.out)
    /\ gen[i].pc \in {"yield188", "yield197"} => seen[i].pulls = Len(seen[i].out)
    /\ gen[i].pc \in {"done", "raised"} =>
         /\ seen[i].out = a.out /\ gen[i].pc = a.pc
         /\ seen[i].pulls = Len(a.out) + 1

\* C10: however the pulls of the open sequences interleave, and whenever a
\* sequence is abandoned and resolve called again, each caller receives the
\* groups its sequence gives when consumed alone, and no pull or resolve changes
\* the loaded map.
C10_IndependentSequences ==
  /\ [](\A i \in Callers : Delivered(i))
  /\ [][result.state = "loaded" => result' = result /\ doc' = doc]_vars

C10_Witness ==
  \E i, j \in Callers :
    /\ i # j /\ seen[i].name # seen[j].name
    /\ gen[i].pc = "done" /\ Len(seen[i].out) >= 3
    /\ gen[j].pc = "yield188" /\ seen[j].pulls = 2
    /\ \A k \in Callers : k \notin {i, j} => gen[k].pc = "raised"

====
